---- MODULE Spec2Model ----
(***************************************************************************)
(* cube-rotate: a rotating cube and a star field drawn with turtle.        *)
(*                                                                         *)
(* Two programs are modelled side by side:                                 *)
(*   variant "one"  src/Cube_Rotate.py      (SpaceAnimation, fixed step)   *)
(*   variant "two"  src/Cube_Rotate_Two.py  (AnimationManager, delta time) *)
(*                                                                         *)
(* Number representation.  Python floats are modelled by integers:         *)
(*   lengths and screen coordinates   whole units (division truncates)     *)
(*   angles                           1/10000 radian                       *)
(*   sines, cosines                   1/TrigScale                          *)
(*   hues                             1/1000                               *)
(*   speed multiplier                 1/10                                 *)
(*   elapsed time                     1/60 second                          *)
(* Definitions prefixed One_ model src/Cube_Rotate.py, the others          *)
(* src/Cube_Rotate_Two.py.                                                 *)
(***************************************************************************)
EXTENDS Integers, Sequences, FiniteSets, TLC

\* ------------------------------------------------------------------------
\* Configuration (class Config / module constants)
\* ------------------------------------------------------------------------
SCREEN_WIDTH == 1280
SCREEN_HEIGHT == 720
CUBE_SIZE == 150
STAR_SPEED == 7
FPS == 60
\* ROTATION_SPEED = 0.02 rad, in 1/10000 rad
ROTATION_SPEED == 200
\* HUE_SPEED = 0.008, in 1/1000
HUE_SPEED == 8
\* Camera.fov = SCREEN_WIDTH * 0.8
FOV == (SCREEN_WIDTH * 8) \div 10
MIN_Z == 1
MAX_Z == SCREEN_WIDTH

\* ------------------------------------------------------------------------
\* Fixed-point helpers
\* ------------------------------------------------------------------------
TrigScale == 10 ^ 3
HueScale == 10 ^ 3
\* math.pi and 2 * math.pi in 1/10000 rad
PI == 31416
TWO_PI == 2 * PI
\* a unit vector component is carried in 1/NormScale
NormScale == 2 ^ 16
\* largest component kept by normalize before squaring
NormLimit == 2 ^ 14

Abs(a) == IF a < 0 THEN -a ELSE a

Max2(a, b) == IF a >= b THEN a ELSE b

Min2(a, b) == IF a <= b THEN a ELSE b

\* float division a / b for b > 0, truncated toward zero
Quot(a, b) == IF a >= 0 THEN a \div b ELSE -((-a) \div b)

\* a / b for b > 0 rounded away from zero: a nonzero float quotient never
\* becomes zero
QuotAway(a, b) == IF a >= 0 THEN (a + b - 1) \div b ELSE -((-a + b - 1) \div b)

RECURSIVE SqrtIter(_, _, _)
SqrtIter(n, lo, hi) ==
    IF lo >= hi THEN lo
    ELSE LET mid == (lo + hi + 1) \div 2
         IN IF mid * mid <= n THEN SqrtIter(n, mid, hi)
            ELSE SqrtIter(n, lo, mid - 1)

\* math.sqrt, rounded down
Sqrt(n) == SqrtIter(n, 0, 46340)

\* math.sin on [0, pi] (Bhaskara's rational approximation, error < 0.2%)
SinHalf(r) ==
    LET p == (r * (PI - r)) \div 10000
    IN (16 * p * TrigScale) \div (493480 - 4 * p)

\* math.sin of an angle a >= 0 given in 1/10000 rad, result in 1/TrigScale
Sin(a) ==
    LET r == a % TWO_PI
    IN IF r <= PI THEN SinHalf(r) ELSE -SinHalf(r - PI)

\* math.cos
Cos(a) == Sin(a + (PI \div 2))

\* ------------------------------------------------------------------------
\* Vector3D  (vectors are triples <<x, y, z>>)
\* ------------------------------------------------------------------------
Vector3D(x, y, z) == <<x, y, z>>

Vec_add(a, b) == <<a[1] + b[1], a[2] + b[2], a[3] + b[3]>>

Vec_sub(a, b) == <<a[1] - b[1], a[2] - b[2], a[3] - b[3]>>

dot(a, b) == a[1] * b[1] + a[2] * b[2] + a[3] * b[3]

cross(a, b) ==
    << a[2] * b[3] - a[3] * b[2],
       a[3] * b[1] - a[1] * b[3],
       a[1] * b[2] - a[2] * b[1] >>

\* sqrt(x^2 + y^2 + z^2)
magnitude(v) == Sqrt(v[1] * v[1] + v[2] * v[2] + v[3] * v[3])

\* normalize: v / |v| when |v| > 0, else the zero vector.  The result is in
\* 1/NormScale.  A float keeps its exponent apart; here the vector is first
\* brought into range (components at most NormLimit), rounding away from
\* zero so that the sign of every component survives, as it does in floats.
normalize(v) ==
    LET m == Max2(Abs(v[1]), Max2(Abs(v[2]), Abs(v[3])))
        k == (m \div NormLimit) + 1
        w == <<QuotAway(v[1], k), QuotAway(v[2], k), QuotAway(v[3], k)>>
        mag == magnitude(w)
    IN IF mag > 0
       THEN << QuotAway(w[1] * NormScale, mag),
               QuotAway(w[2] * NormScale, mag),
               QuotAway(w[3] * NormScale, mag) >>
       ELSE Vector3D(0, 0, 0)

\* ------------------------------------------------------------------------
\* Camera
\* ------------------------------------------------------------------------
\* Camera.__init__: position
CameraInit == Vector3D(0, 0, -500)

\* Camera.move
Camera_move(position, delta) == Vec_add(position, delta)

\* project_point with the camera offset added instead of subtracted
project_point_offset_added(position, point) ==
    LET camera_z == point[3] + position[3]
    IN IF camera_z <= 0
       THEN <<0, 0, 0>>
       ELSE << Quot(point[1] * FOV, camera_z),
               Quot(point[2] * FOV, camera_z),
               camera_z >>

\* Camera.project_point: (screen_x, screen_y, camera_z), or (0, 0, 0) for a
\* point at or behind the camera.  scale = fov / camera_z is applied to x
\* and y; the quotient is taken after the product to keep the precision.
project_point(position, point) ==
    LET camera_z == point[3] - position[3]
    IN IF camera_z <= 0
       THEN <<0, 0, 0>>
       ELSE << Quot(point[1] * FOV, camera_z),
               Quot(point[2] * FOV, camera_z),
               camera_z >>

\* ------------------------------------------------------------------------
\* StarParticle (delta-time variant)
\* ------------------------------------------------------------------------
\* One outcome of the random draws of reset(): z = randint(10, SCREEN_WIDTH),
\* x, y over the screen, speed = uniform(0.5, 2.0), size = uniform(1, 3),
\* hue_speed = uniform(0.002, 0.005) in 1/1000, trail_length in 0..5,
\* flicker_speed = uniform(0.05, 0.2) in 1/10000 rad.
IsResetDraw(d) ==
    /\ d.z \in 10..SCREEN_WIDTH
    /\ d.x \in -(SCREEN_WIDTH \div 2)..(SCREEN_WIDTH \div 2)
    /\ d.y \in -(SCREEN_HEIGHT \div 2)..(SCREEN_HEIGHT \div 2)
    /\ d.speed \in 1..2
    /\ d.size \in 1..3
    /\ d.hue_speed \in 2..5
    /\ d.trail_length \in 0..5
    /\ d.flicker \in BOOLEAN
    /\ d.flicker_speed \in 500..2000

\* StarParticle.reset: every field but hue is drawn again
StarParticle_reset(star, d) ==
    [ x |-> d.x, y |-> d.y, z |-> d.z,
      speed |-> d.speed, size |-> d.size, hue_speed |-> d.hue_speed,
      trail_length |-> d.trail_length, flicker |-> d.flicker,
      flicker_speed |-> d.flicker_speed, flicker_state |-> 0,
      hue |-> star.hue ]

\* StarParticle.__init__: reset(), then hue = random.random()
StarParticle_init(d, h) ==
    StarParticle_reset([hue |-> h], d)

\* update() without its `if self.position.z < 1: self.reset()`
StarParticle_update_no_reset(star, delta_time, d) ==
    [star EXCEPT
       !.z = star.z - STAR_SPEED * star.speed * delta_time,
       !.hue = (star.hue + star.hue_speed) % HueScale,
       !.flicker_state =
           IF star.flicker
           THEN (star.flicker_state + star.flicker_speed) % TWO_PI
           ELSE star.flicker_state]

\* StarParticle.update(delta_time); d is the draw reset() makes if it runs
\* (delta_time in 1/60 s, so that delta_time * 60 is delta_time here)
StarParticle_update(star, delta_time, d) ==
    LET movement == STAR_SPEED * star.speed * delta_time
        moved == [star EXCEPT
                    !.z = star.z - movement,
                    !.hue = (star.hue + star.hue_speed) % HueScale,
                    !.flicker_state =
                        IF star.flicker
                        THEN (star.flicker_state + star.flicker_speed) % TWO_PI
                        ELSE star.flicker_state]
    IN IF moved.z < 1 THEN StarParticle_reset(moved, d) ELSE moved

\* sizes are carried in 1/SizeDen: size * (1 - z / SCREEN_WIDTH), times the
\* flicker factor 0.5 + 0.5 * sin(flicker_state) for a flickering star
SizeDen == SCREEN_WIDTH * 2 * TrigScale

\* StarParticle.get_screen_position: (x, y, size); the depth is dropped
get_screen_position(star, position) ==
    LET p == project_point(position, <<star.x, star.y, star.z>>)
        size == star.size * (SCREEN_WIDTH - star.z)
    IN << p[1], p[2],
          IF star.flicker
          THEN size * (TrigScale + Sin(star.flicker_state))
          ELSE size * 2 * TrigScale >>

\* ------------------------------------------------------------------------
\* StarParticle (fixed-step variant)
\* ------------------------------------------------------------------------
One_IsResetDraw(d) ==
    /\ d.z \in (MIN_Z + 9)..MAX_Z
    /\ d.x \in -(SCREEN_WIDTH \div 2)..(SCREEN_WIDTH \div 2)
    /\ d.y \in -(SCREEN_HEIGHT \div 2)..(SCREEN_HEIGHT \div 2)
    /\ d.speed \in 1..2
    /\ d.size \in 1..3

One_StarParticle_reset(d) ==
    [ x |-> d.x, y |-> d.y, z |-> d.z, speed |-> d.speed, size |-> d.size ]

One_StarParticle_update(star, d) ==
    LET moved == [star EXCEPT !.z = star.z - STAR_SPEED * star.speed]
    IN IF moved.z < MIN_Z THEN One_StarParticle_reset(d) ELSE moved

\* get_projected_position: <<>> stands for None
One_get_projected_position(star) ==
    IF star.z < MIN_Z THEN <<>>
    ELSE << Quot(star.x * 100, star.z), Quot(star.y * 100, star.z) >>

\* get_size, in 1/(10 * MAX_Z): max(0.1, size * (1 - z / MAX_Z))
One_get_size(star) ==
    Max2(MAX_Z, 10 * star.size * (MAX_Z - star.z))

\* ------------------------------------------------------------------------
\* Object3D (delta-time variant).  An object is a record
\*   [vertices, edges, faces, position, rotation, scale, hue_shift]
\* with 1-based vertex indices in edges and faces.
\* ------------------------------------------------------------------------
\* Object3D.__init__, with the three lists filled in
Object3D(vertices, edges, faces) ==
    [ vertices |-> vertices, edges |-> edges, faces |-> faces,
      position |-> Vector3D(0, 0, 0),
      rotation |-> Vector3D(0, 0, 0),
      scale |-> Vector3D(1, 1, 1),
      hue_shift |-> 0 ]

\* ChromaticCube.__init__
ChromaticCube(size) ==
    [ vertices |-> << <<-size, -size, -size>>, <<size, -size, -size>>,
                      <<size, size, -size>>,   <<-size, size, -size>>,
                      <<-size, -size, size>>,  <<size, -size, size>>,
                      <<size, size, size>>,    <<-size, size, size>> >>,
      edges |-> << <<1, 2>>, <<2, 3>>, <<3, 4>>, <<4, 1>>,
                   <<5, 6>>, <<6, 7>>, <<7, 8>>, <<8, 5>>,
                   <<1, 5>>, <<2, 6>>, <<3, 7>>, <<4, 8>> >>,
      faces |-> << <<1, 2, 3, 4>>, <<5, 6, 7, 8>>, <<1, 2, 6, 5>>,
                   <<3, 4, 8, 7>>, <<1, 4, 8, 5>>, <<2, 3, 7, 6>> >>,
      position |-> Vector3D(0, 0, 0),
      rotation |-> Vector3D(0, 0, 0),
      scale |-> Vector3D(1, 1, 1),
      hue_shift |-> 0 ]

\* rotate() with the Y and Z factors exchanged
Object3D_rotate_axes_swapped(obj, delta_time, speed_multiplier) ==
    LET rotation_speed == ROTATION_SPEED * speed_multiplier * delta_time
    IN [obj EXCEPT
          !.rotation = << obj.rotation[1] + rotation_speed \div 10,
                          obj.rotation[2] + (rotation_speed * 3) \div 100,
                          obj.rotation[3] + (rotation_speed * 7) \div 100 >>,
          !.hue_shift = (obj.hue_shift + HUE_SPEED * delta_time) % HueScale]

\* rotate() stepping by one frame whatever the elapsed time
Object3D_rotate_fixed_step(obj, delta_time, speed_multiplier) ==
    LET rotation_speed == ROTATION_SPEED * speed_multiplier
    IN [obj EXCEPT
          !.rotation = << obj.rotation[1] + rotation_speed \div 10,
                          obj.rotation[2] + (rotation_speed * 7) \div 100,
                          obj.rotation[3] + (rotation_speed * 3) \div 100 >>,
          !.hue_shift = (obj.hue_shift + HUE_SPEED) % HueScale]

\* Object3D.rotate(delta_time, speed_multiplier): delta_time in 1/60 s and
\* speed_multiplier in 1/10, so ROTATION_SPEED * speed_multiplier *
\* delta_time * 60, in 1/10000 rad, is (ROTATION_SPEED * m * dt) / 10; the
\* three increments are kept in 1/100000 rad until the last division so
\* that rotation_speed * 0.7 and * 0.3 stay exact.
Object3D_rotate(obj, delta_time, speed_multiplier) ==
    LET rotation_speed == ROTATION_SPEED * speed_multiplier * delta_time
    IN [obj EXCEPT
          !.rotation = << obj.rotation[1] + rotation_speed \div 10,
                          obj.rotation[2] + (rotation_speed * 7) \div 100,
                          obj.rotation[3] + (rotation_speed * 3) \div 100 >>,
          !.hue_shift = (obj.hue_shift + HUE_SPEED * delta_time) % HueScale]

\* one plane rotation: (a * cos - b * sin, a * sin + b * cos)
Rot(a, b, angle) ==
    LET c == Cos(angle)
        s == Sin(angle)
    IN << Quot(a * c - b * s, TrigScale), Quot(a * s + b * c, TrigScale) >>

\* Object3D.transform_vertex: scale, rotate about X, Y, Z, translate
transform_vertex(obj, vertex) ==
    LET x0 == vertex[1] * obj.scale[1]
        y0 == vertex[2] * obj.scale[2]
        z0 == vertex[3] * obj.scale[3]
        yz == Rot(y0, z0, obj.rotation[1])
        y1 == yz[1]
        z1 == yz[2]
        \* x, z = (x cos + z sin, -x sin + z cos)
        zx == Rot(z1, x0, obj.rotation[2])
        z2 == zx[1]
        x2 == zx[2]
        xy == Rot(x2, y1, obj.rotation[3])
    IN << xy[1] + obj.position[1],
          xy[2] + obj.position[2],
          z2 + obj.position[3] >>

\* Object3D.calculate_face_normal
calculate_face_normal(face, projected_vertices) ==
    IF Len(face) < 3
    THEN Vector3D(0, 0, NormScale)
    ELSE LET v0 == projected_vertices[face[1]]
             v1 == projected_vertices[face[2]]
             v2 == projected_vertices[face[3]]
             edge1 == Vec_sub(v1, v0)
             edge2 == Vec_sub(v2, v0)
             normal == cross(edge1, edge2)
         IN normalize(normal)

\* should_render_face with `<= 0` for `< 0`
should_render_face_nonpositive(face, projected_vertices) ==
    dot(calculate_face_normal(face, projected_vertices), Vector3D(0, 0, 1)) <= 0

\* Object3D.should_render_face (backface culling)
should_render_face(face, projected_vertices) ==
    LET normal == calculate_face_normal(face, projected_vertices)
        view_vector == Vector3D(0, 0, 1)
    IN dot(normal, view_vector) < 0

\* the projected vertices computed at the top of Object3D.draw, from
\* vertex i on
RECURSIVE ProjectVertices(_, _, _, _)
ProjectVertices(obj, position, i, projected_vertices) ==
    IF i > Len(obj.vertices) THEN projected_vertices
    ELSE LET transformed == transform_vertex(obj, obj.vertices[i])
             projected == project_point(position, transformed)
         IN ProjectVertices(obj, position, i + 1,
                            Append(projected_vertices, projected))

\* the wireframe branch skipping an edge only when both ends are behind
RECURSIVE DrawEdges_both_behind(_, _, _, _)
DrawEdges_both_behind(obj, projected_vertices, i, lines) ==
    IF i > Len(obj.edges) THEN lines
    ELSE LET edge == obj.edges[i]
             hue == (obj.hue_shift + (i - 1) * 20) % HueScale
             p1 == projected_vertices[edge[1]]
             p2 == projected_vertices[edge[2]]
         IN DrawEdges_both_behind(obj, projected_vertices, i + 1,
                IF p1[3] <= 0 /\ p2[3] <= 0
                THEN lines
                ELSE Append(lines, [ edge |-> i, hue |-> hue,
                                     from |-> <<p1[1], p1[2]>>,
                                     to |-> <<p2[1], p2[2]>>,
                                     depths |-> <<p1[3], p2[3]>> ]))

\* the wireframe branch of Object3D.draw, from edge i on: one line per edge
\* whose two projected depths are positive; depths records the projected
\* depths of the two end points (0 for a point at or behind the camera)
RECURSIVE DrawEdges(_, _, _, _)
DrawEdges(obj, projected_vertices, i, lines) ==
    IF i > Len(obj.edges) THEN lines
    ELSE LET edge == obj.edges[i]
             hue == (obj.hue_shift + (i - 1) * 20) % HueScale
             p1 == projected_vertices[edge[1]]
             p2 == projected_vertices[edge[2]]
         IN DrawEdges(obj, projected_vertices, i + 1,
                IF p1[3] <= 0 \/ p2[3] <= 0
                THEN lines
                ELSE Append(lines, [ edge |-> i, hue |-> hue,
                                     from |-> <<p1[1], p1[2]>>,
                                     to |-> <<p2[1], p2[2]>>,
                                     depths |-> <<p1[3], p2[3]>> ]))

RECURSIVE SumDepth(_, _, _)
SumDepth(face, projected_vertices, k) ==
    IF k > Len(face) THEN 0
    ELSE projected_vertices[face[k]][3] + SumDepth(face, projected_vertices, k + 1)

\* avg_z = sum / len, carried as the pair <<sum, len>>; a is farther than b
AvgGreater(a, b) == a[1] * b[2] > b[1] * a[2]

\* face_data of the solid branch, from face i on: (face, avg_z, i) of every
\* face should_render_face accepts
RECURSIVE FaceData(_, _, _, _)
FaceData(obj, projected_vertices, i, face_data) ==
    IF i > Len(obj.faces) THEN face_data
    ELSE LET face == obj.faces[i]
         IN FaceData(obj, projected_vertices, i + 1,
                IF ~should_render_face(face, projected_vertices)
                THEN face_data
                ELSE Append(face_data,
                        [ face |-> face, face_idx |-> i,
                          avg_z |-> << SumDepth(face, projected_vertices, 1),
                                       Len(face) >> ]))

\* a descending sort that puts e in front of the entries as far as it is
RECURSIVE InsertByDepth_unstable(_, _)
InsertByDepth_unstable(sorted, e) ==
    IF sorted = <<>> THEN <<e>>
    ELSE IF ~AvgGreater(Head(sorted).avg_z, e.avg_z)
         THEN <<e>> \o sorted
         ELSE <<Head(sorted)>> \o InsertByDepth_unstable(Tail(sorted), e)

\* list.sort(key = avg_z, reverse = True): stable, farthest first.  e goes
\* behind every entry that is at least as far.
RECURSIVE InsertByDepth(_, _)
InsertByDepth(sorted, e) ==
    IF sorted = <<>> THEN <<e>>
    ELSE IF AvgGreater(e.avg_z, Head(sorted).avg_z)
         THEN <<e>> \o sorted
         ELSE <<Head(sorted)>> \o InsertByDepth(Tail(sorted), e)

RECURSIVE SortByDepth(_, _)
SortByDepth(face_data, sorted) ==
    IF face_data = <<>> THEN sorted
    ELSE SortByDepth(Tail(face_data), InsertByDepth(sorted, Head(face_data)))

\* the projected depths of the vertices of one face
FaceDepths(face, projected_vertices) ==
    [ k \in 1..Len(face) |-> projected_vertices[face[k]][3] ]

\* the polygon of one face: its first vertex, the others, the first again
FacePoints(face, projected_vertices) ==
    [ k \in 1..(Len(face) + 1) |->
        LET v == IF k > Len(face) THEN face[1] ELSE face[k]
        IN << projected_vertices[v][1], projected_vertices[v][2] >> ]

\* Object3D.draw: what is drawn, as [lines, fills]
Object3D_draw(obj, position, wireframe) ==
    LET projected_vertices == ProjectVertices(obj, position, 1, <<>>)
    IN IF ~wireframe
       THEN LET face_data ==
                    SortByDepth(FaceData(obj, projected_vertices, 1, <<>>), <<>>)
            IN [ lines |-> <<>>,
                 fills |-> [ n \in 1..Len(face_data) |->
                     [ face |-> face_data[n].face_idx,
                       hue |-> (obj.hue_shift + (face_data[n].face_idx - 1) * 50)
                                   % HueScale,
                       points |-> FacePoints(face_data[n].face,
                                             projected_vertices),
                       depths |-> FaceDepths(face_data[n].face,
                                             projected_vertices) ] ] ]
       ELSE [ lines |-> DrawEdges(obj, projected_vertices, 1, <<>>),
              fills |-> <<>> ]

\* ------------------------------------------------------------------------
\* RotatingCube (fixed-step variant): [vertices, edges, size, angle]
\* ------------------------------------------------------------------------
One_RotatingCube(size) ==
    [ vertices |-> ChromaticCube(size).vertices,
      edges |-> ChromaticCube(size).edges,
      size |-> size,
      angle |-> <<0, 0, 0>> ]

\* RotatingCube.rotate: ROTATION_SPEED, * 0.7, * 0.3 per frame
One_rotate(cube) ==
    [cube EXCEPT !.angle = << cube.angle[1] + ROTATION_SPEED,
                              cube.angle[2] + (ROTATION_SPEED * 7) \div 10,
                              cube.angle[3] + (ROTATION_SPEED * 3) \div 10 >>]

\* RotatingCube._apply_rotation
One_apply_rotation(cube, v) ==
    LET yz == Rot(v[2], v[3], cube.angle[1])
        zx == Rot(yz[2], v[1], cube.angle[2])
        xy == Rot(zx[2], yz[1], cube.angle[3])
    IN << xy[1], xy[2], zx[1] >>

\* RotatingCube._project_3d_to_2d
One_project_3d_to_2d(v) ==
    LET z_adjusted == Max2(v[3], -FOV + 1)
    IN << Quot(v[1] * FOV, FOV + z_adjusted), Quot(v[2] * FOV, FOV + z_adjusted) >>

\* RotatingCube.draw from edge i on: every edge is drawn; brightness in
\* 1/1000, 1 - 0.7 * (avg_z - min_z) / z_range clamped to [0.3, 1]
RECURSIVE One_DrawEdges(_, _, _)
One_DrawEdges(cube, i, lines) ==
    IF i > Len(cube.edges) THEN lines
    ELSE LET edge == cube.edges[i]
             r1 == One_apply_rotation(cube, cube.vertices[edge[1]])
             r2 == One_apply_rotation(cube, cube.vertices[edge[2]])
             z_range == 3 * cube.size
             brightness ==
                 1000 - Quot(700 * (r1[3] + r2[3] + z_range), 2 * z_range)
         IN One_DrawEdges(cube, i + 1,
                Append(lines, [ edge |-> i,
                                brightness |-> Max2(300, Min2(1000, brightness)),
                                from |-> One_project_3d_to_2d(r1),
                                to |-> One_project_3d_to_2d(r2) ]))

One_draw(cube) == One_DrawEdges(cube, 1, <<>>)

\* ------------------------------------------------------------------------
\* Drawing the star field
\* ------------------------------------------------------------------------
\* AnimationManager.draw_stars from star i on: one dot per star whose size
\* is positive, with its trail; depth records the camera-relative depth of
\* the point the dot was projected from
RECURSIVE DrawStars(_, _, _, _)
DrawStars(field, position, i, dots) ==
    IF i > Len(field) THEN dots
    ELSE LET star == field[i]
             p == get_screen_position(star, position)
         IN DrawStars(field, position, i + 1,
                IF p[3] <= 0
                THEN dots
                ELSE Append(dots,
                        [ star |-> i, x |-> p[1], y |-> p[2], size |-> p[3],
                          depth |-> star.z - position[3],
                          trail |-> IF star.trail_length > 0
                                    THEN << p[1] + Quot(p[1] * star.trail_length, 30),
                                            p[2] + Quot(p[2] * star.trail_length, 30) >>
                                    ELSE <<>> ]))

draw_stars(field, position) == DrawStars(field, position, 1, <<>>)

\* SpaceAnimation.draw_stars from star i on
RECURSIVE One_DrawStars(_, _, _)
One_DrawStars(field, i, dots) ==
    IF i > Len(field) THEN dots
    ELSE LET star == field[i]
             p == One_get_projected_position(star)
             margin == 50
         IN One_DrawStars(field, i + 1,
                IF p = <<>> THEN dots
                ELSE IF \/ Abs(p[1]) > SCREEN_WIDTH \div 2 + margin
                        \/ Abs(p[2]) > SCREEN_HEIGHT \div 2 + margin
                     THEN dots
                     ELSE Append(dots, [ star |-> i, x |-> p[1], y |-> p[2],
                                         size |-> One_get_size(star) ]))

One_draw_stars(field) == One_DrawStars(field, 1, <<>>)

\* ------------------------------------------------------------------------
\* State
\* ------------------------------------------------------------------------
VARIABLES
    variant,          \* "one" or "two": which program runs
    pc,               \* "top": at the loop test; "events": inside
                      \* screen.update() of render(), where turtle dispatches
                      \* the input handlers; "done": run() returned;
                      \* "crashed": an exception left run()
    running,          \* self.running
    wireframe_mode,   \* self.wireframe_mode
    rotation_speed,   \* self.rotation_speed, in 1/10
    camera,           \* self.camera.position
    stars,            \* self.stars
    cube,             \* self.cube
    frame_count,      \* self.frame_count
    fps_elapsed,      \* time since self.last_fps_update, in 1/60 s
    current_fps,      \* self.current_fps (whole frames per second)
    since_frame,      \* variant one: time since self.last_frame_time, in frames
    surface,          \* the turtle window: "open" or "destroyed"
    releases,         \* how often the window was torn down
    printed,          \* what run() printed on its way out
    canvas,           \* what the last render() drew: [dots, lines, fills]
    last,             \* the operation that made the last step
    failure,          \* the fault raised inside the loop, "none" if none
    exit_handled,     \* an exit event has been handled
    ticks,            \* ticks begun
    ticks_after_exit, \* ticks begun after an exit event was handled
    events,           \* input events handled
    call              \* SpecStar, SpecProject, SpecFace: the call just made

vars == << variant, pc, running, wireframe_mode, rotation_speed, camera, stars,
           cube, frame_count, fps_elapsed, current_fps, since_frame, surface,
           releases, printed, canvas, last, failure, exit_handled, ticks,
           ticks_after_exit, events, call >>

control == << running, wireframe_mode, rotation_speed, camera >>

scene == << stars, cube >>

clock == << frame_count, fps_elapsed, current_fps, since_frame >>

window == << surface, releases, printed >>

history == << failure, exit_handled, ticks, ticks_after_exit >>

EmptyCanvas == [ dots |-> <<>>, lines |-> <<>>, fills |-> <<>> ]

NoCall == [ op |-> "none" ]

\* ------------------------------------------------------------------------
\* Bounds and sampled inputs
\* ------------------------------------------------------------------------
\* stars in the pool (STAR_COUNT in the programs)
NumStars == 1
\* ticks begun in one run
MaxTicks == 2
\* input events handled in one run
MaxEvents == 2

\* elapsed times a tick may measure, in 1/60 s: none, one frame, a stall of
\* one second
DeltaTimes == {0, 1, FPS}

\* outcomes of the random draws of StarParticle.reset
DrawNear ==
    [ z |-> 10, x |-> -640, y |-> 360, speed |-> 2, size |-> 1, hue_speed |-> 2,
      trail_length |-> 0, flicker |-> FALSE, flicker_speed |-> 500 ]

DrawMid ==
    [ z |-> 15, x |-> 0, y |-> 0, speed |-> 2, size |-> 2, hue_speed |-> 5,
      trail_length |-> 3, flicker |-> FALSE, flicker_speed |-> 1000 ]

DrawFar ==
    [ z |-> 1280, x |-> 640, y |-> -360, speed |-> 1, size |-> 3, hue_speed |-> 5,
      trail_length |-> 5, flicker |-> TRUE, flicker_speed |-> 2000 ]

LoopDraws == {DrawNear, DrawFar}

One_LoopDraws ==
    { [ z |-> d.z, x |-> d.x, y |-> d.y, speed |-> d.speed, size |-> d.size ] :
        d \in LoopDraws }

\* outcomes of hue = random.random(), in 1/1000
InitHues == {997}

\* ------------------------------------------------------------------------
\* AnimationManager (delta-time variant)
\* ------------------------------------------------------------------------
\* update() removing a star that passes the viewer instead of resetting it
AnimationManager_update_dropping(run, field, obj, delta_time, speed, d) ==
    LET Stays(star) == star.z - STAR_SPEED * star.speed * delta_time >= 1
        kept == SelectSeq(field, Stays)
    IN IF ~run
       THEN [ stars |-> field, cube |-> obj ]
       ELSE [ stars |-> [ i \in 1..Len(kept) |->
                            StarParticle_update(kept[i], delta_time, d[i]) ],
              cube |-> Object3D_rotate(obj, delta_time, speed) ]

\* update() without its `if not self.running: return`
AnimationManager_update_unpaused(run, field, obj, delta_time, speed, d) ==
    [ stars |-> [ i \in 1..Len(field) |->
                    StarParticle_update(field[i], delta_time, d[i]) ],
      cube |-> Object3D_rotate(obj, delta_time, speed) ]

\* AnimationManager.update(delta_time): [stars, cube] afterwards; d[i] is
\* the draw star i makes if it resets
AnimationManager_update(run, field, obj, delta_time, speed, d) ==
    IF ~run
    THEN [ stars |-> field, cube |-> obj ]
    ELSE [ stars |-> [ i \in 1..Len(field) |->
                         StarParticle_update(field[i], delta_time, d[i]) ],
           cube |-> Object3D_rotate(obj, delta_time, speed) ]

\* AnimationManager.calculate_fps: [frame_count, fps_elapsed, current_fps]
calculate_fps(count, elapsed_before, fps, delta_time) ==
    LET elapsed == elapsed_before + delta_time
    IN IF elapsed >= FPS
       THEN [ frame_count |-> 0, fps_elapsed |-> 0,
              current_fps |-> ((count + 1) * FPS) \div elapsed ]
       ELSE [ frame_count |-> count + 1, fps_elapsed |-> elapsed,
              current_fps |-> fps ]

\* AnimationManager.render, up to screen.update()
render(field, obj, position, wireframe) ==
    LET drawn == Object3D_draw(obj, position, wireframe)
    IN [ dots |-> draw_stars(field, position),
         lines |-> drawn.lines,
         fills |-> drawn.fills ]

\* what run() does with an exception raised in its loop: Terminator and
\* KeyboardInterrupt are caught and reported, anything else leaves run()
RunExcept(fault) ==
    /\ failure' = fault
    /\ IF fault \in {"closed", "interrupt"}
       THEN pc' = "done" /\ printed' = "Animation terminated."
       ELSE pc' = "crashed" /\ printed' = printed

\* one pass of `while True` in run(), first part: delta time,
\* calculate_fps and update().  The loop does not look at self.running or
\* at the window, so a pass begins after screen.bye() as well.
BeginTick(delta_time, d) ==
    /\ variant = "two" /\ pc = "top"
    /\ LET fps == calculate_fps(frame_count, fps_elapsed, current_fps, delta_time)
           next == AnimationManager_update(running, stars, cube, delta_time,
                                           rotation_speed, d)
       IN /\ frame_count' = fps.frame_count
          /\ fps_elapsed' = fps.fps_elapsed
          /\ current_fps' = fps.current_fps
          /\ stars' = next.stars
          /\ cube' = next.cube
    /\ pc' = "render"
    /\ last' = "tick"
    /\ ticks' = ticks + 1
    /\ ticks_after_exit' = IF exit_handled THEN ticks_after_exit + 1
                           ELSE ticks_after_exit
    /\ UNCHANGED << variant, control, since_frame, window, canvas, failure,
                    exit_handled, events, call >>

\* second part: render() draws the frame and enters screen.update()
Render ==
    /\ variant = "two" /\ pc = "render" /\ surface = "open"
    /\ canvas' = render(stars, cube, camera, wireframe_mode)
    /\ pc' = "events"
    /\ last' = "render"
    /\ UNCHANGED << variant, control, scene, clock, window, history, events,
                    call >>

\* ... or render() raises: the window was closed from outside ("closed",
\* turtle.Terminator), the user interrupted ("interrupt",
\* KeyboardInterrupt), or something else failed ("error")
RenderFault(fault) ==
    /\ variant = "two" /\ pc = "render" /\ surface = "open"
    /\ RunExcept(fault)
    /\ surface' = IF fault = "closed" THEN "destroyed" ELSE surface
    /\ releases' = IF fault = "closed" THEN releases + 1 ELSE releases
    /\ last' = "render"
    /\ UNCHANGED << variant, control, scene, clock, canvas, exit_handled, ticks,
                    ticks_after_exit, events, call >>

\* ... or render() finds the window destroyed by screen.bye(): its first
\* turtle call fails, with turtle.Terminator ("closed") or with a Tk error
\* ("error")
RenderDestroyed(fault) ==
    /\ variant = "two" /\ pc = "render" /\ surface = "destroyed"
    /\ RunExcept(fault)
    /\ last' = "render"
    /\ UNCHANGED << variant, control, scene, clock, surface, releases, canvas,
                    exit_handled, ticks, ticks_after_exit, events, call >>

\* third part: screen.update() returns, the status line is rewritten every
\* 30 frames, the loop sleeps
EndTick ==
    /\ variant = "two" /\ pc = "events"
    /\ ~(surface = "destroyed" /\ frame_count % 30 = 0)
    /\ pc' = "top"
    /\ last' = "end_tick"
    /\ UNCHANGED << variant, control, scene, clock, window, canvas, history,
                    events, call >>

\* ... or update_status() writes to the window screen.bye() destroyed
EndTickFault(fault) ==
    /\ variant = "two" /\ pc = "events"
    /\ surface = "destroyed" /\ frame_count % 30 = 0
    /\ RunExcept(fault)
    /\ last' = "end_tick"
    /\ UNCHANGED << variant, control, scene, clock, surface, releases, canvas,
                    exit_handled, ticks, ticks_after_exit, events, call >>

\* the key handlers run while screen.update() dispatches events
Dispatching == variant = "two" /\ pc = "events" /\ surface = "open"

\* toggle_pause() that only ever pauses
toggle_pause_only_pauses ==
    /\ Dispatching
    /\ running' = FALSE
    /\ last' = "toggle_pause"
    /\ events' = events + 1
    /\ UNCHANGED << variant, pc, wireframe_mode, rotation_speed, camera, scene,
                    clock, window, canvas, history, call >>

\* increase_speed() without its min(3.0, ...)
increase_speed_unclamped ==
    /\ Dispatching
    /\ rotation_speed' = rotation_speed + 1
    /\ last' = "increase_speed"
    /\ events' = events + 1
    /\ UNCHANGED << variant, pc, running, wireframe_mode, camera, scene, clock,
                    window, canvas, history, call >>

\* AnimationManager.toggle_pause
toggle_pause ==
    /\ Dispatching
    /\ running' = ~running
    /\ last' = "toggle_pause"
    /\ events' = events + 1
    /\ UNCHANGED << variant, pc, wireframe_mode, rotation_speed, camera, scene,
                    clock, window, canvas, history, call >>

increase_speed ==
    /\ Dispatching
    /\ rotation_speed' = Min2(30, rotation_speed + 1)
    /\ last' = "increase_speed"
    /\ events' = events + 1
    /\ UNCHANGED << variant, pc, running, wireframe_mode, camera, scene, clock,
                    window, canvas, history, call >>

decrease_speed ==
    /\ Dispatching
    /\ rotation_speed' = Max2(1, rotation_speed - 1)
    /\ last' = "decrease_speed"
    /\ events' = events + 1
    /\ UNCHANGED << variant, pc, running, wireframe_mode, camera, scene, clock,
                    window, canvas, history, call >>

toggle_wireframe ==
    /\ Dispatching
    /\ wireframe_mode' = ~wireframe_mode
    /\ last' = "toggle_wireframe"
    /\ events' = events + 1
    /\ UNCHANGED << variant, pc, running, rotation_speed, camera, scene, clock,
                    window, canvas, history, call >>

move_camera(delta) ==
    /\ Dispatching
    /\ camera' = Camera_move(camera, delta)
    /\ last' = "move_camera"
    /\ events' = events + 1
    /\ UNCHANGED << variant, pc, running, wireframe_mode, rotation_speed, scene,
                    clock, window, canvas, history, call >>

exit_animation ==
    /\ Dispatching
    /\ running' = FALSE
    /\ surface' = "destroyed"
    /\ releases' = releases + 1
    /\ exit_handled' = TRUE
    /\ last' = "exit_animation"
    /\ events' = events + 1
    /\ UNCHANGED << variant, pc, wireframe_mode, rotation_speed, camera, scene,
                    clock, printed, canvas, failure, ticks, ticks_after_exit,
                    call >>

\* ------------------------------------------------------------------------
\* SpaceAnimation (fixed-step variant)
\* ------------------------------------------------------------------------
\* SpaceAnimation.update: [stars, cube, frame_count]
One_update(field, obj, count, d) ==
    [ stars |-> [ i \in 1..Len(field) |-> One_StarParticle_update(field[i], d[i]) ],
      cube |-> One_rotate(obj),
      frame_count |-> count + 1 ]

\* SpaceAnimation.render, up to screen.update()
One_render(field, obj) ==
    [ dots |-> One_draw_stars(field), lines |-> One_draw(obj), fills |-> <<>> ]

\* the finally clause of run(): turtle.bye() inside try / except: pass.  On
\* an open window it takes effect; on a destroyed one whatever it raises is
\* swallowed.
One_Finally(now) ==
    /\ surface' = "destroyed"
    /\ releases' = IF now = "open" THEN releases + 1 ELSE releases

\* one pass of `while self.running` with a frame due, first part: update()
One_begin_tick(d) ==
    /\ variant = "one" /\ pc = "top"
    /\ running /\ since_frame >= 1
    /\ LET next == One_update(stars, cube, frame_count, d)
       IN /\ stars' = next.stars
          /\ cube' = next.cube
          /\ frame_count' = next.frame_count
    /\ since_frame' = 0
    /\ pc' = "render"
    /\ last' = "tick"
    /\ ticks' = ticks + 1
    /\ ticks_after_exit' = IF exit_handled THEN ticks_after_exit + 1
                           ELSE ticks_after_exit
    /\ UNCHANGED << variant, control, fps_elapsed, current_fps, window, canvas,
                    failure, exit_handled, events, call >>

\* one pass with no frame due: sleep
One_sleep ==
    /\ variant = "one" /\ pc = "top" /\ running /\ since_frame = 0
    /\ since_frame' = 1
    /\ last' = "sleep"
    /\ UNCHANGED << variant, pc, control, scene, frame_count, fps_elapsed,
                    current_fps, window, canvas, history, events, call >>

\* second part: render() draws the frame and enters screen.update()
One_Render ==
    /\ variant = "one" /\ pc = "render"
    /\ canvas' = One_render(stars, cube)
    /\ pc' = "events"
    /\ last' = "render"
    /\ UNCHANGED << variant, control, scene, clock, window, history, events,
                    call >>

\* ... or render() raises: each except clause prints, and the finally
\* clause releases the window
One_RenderFault(fault) ==
    /\ variant = "one" /\ pc = "render"
    /\ failure' = fault
    /\ printed' = CASE fault = "closed" -> "Animation terminated."
                    [] fault = "interrupt" -> "Animation stopped by user."
                    [] OTHER -> "Error occurred"
    /\ One_Finally(IF fault = "closed" THEN "destroyed" ELSE "open")
    /\ pc' = "done"
    /\ last' = "render"
    /\ UNCHANGED << variant, control, scene, clock, canvas, exit_handled, ticks,
                    ticks_after_exit, events, call >>

\* screen.update() returns and render() with it
One_end_tick ==
    /\ variant = "one" /\ pc = "events"
    /\ pc' = "top"
    /\ last' = "end_tick"
    /\ UNCHANGED << variant, control, scene, clock, window, canvas, history, events, call >>

\* SpaceAnimation.close, the WM_DELETE_WINDOW handler
One_close ==
    /\ variant = "one" /\ pc = "events" /\ surface = "open"
    /\ running' = FALSE
    /\ exit_handled' = TRUE
    /\ last' = "close"
    /\ events' = events + 1
    /\ UNCHANGED << variant, pc, wireframe_mode, rotation_speed, camera, scene,
                    clock, window, canvas, failure, ticks, ticks_after_exit,
                    call >>

\* `while self.running` fails: run() leaves through its finally clause
One_exit_loop ==
    /\ variant = "one" /\ pc = "top" /\ ~running
    /\ One_Finally(surface)
    /\ pc' = "done"
    /\ last' = "exit_loop"
    /\ UNCHANGED << variant, control, scene, clock, printed, canvas, history,
                    events, call >>

\* ------------------------------------------------------------------------
\* Spec: both programs from construction on
\* ------------------------------------------------------------------------
\* the fields the constructors set to fixed values
Constructed ==
    /\ pc = "top"
    /\ running = TRUE
    /\ wireframe_mode = TRUE
    /\ rotation_speed = 10
    /\ camera = CameraInit
    /\ frame_count = 0
    /\ fps_elapsed = 0
    /\ current_fps = 0
    /\ since_frame = 0
    /\ surface = "open"
    /\ releases = 0
    /\ printed = ""
    /\ canvas = EmptyCanvas
    /\ last = "init"
    /\ failure = "none"
    /\ exit_handled = FALSE
    /\ ticks = 0
    /\ ticks_after_exit = 0
    /\ events = 0

\* self.cube
ConstructedCube ==
    cube = IF variant = "two" THEN ChromaticCube(CUBE_SIZE)
           ELSE One_RotatingCube(CUBE_SIZE)

\* AnimationManager.__init__ / SpaceAnimation.__init__
Init ==
    /\ variant \in {"one", "two"}
    /\ \E d \in [1..NumStars -> LoopDraws], h \in [1..NumStars -> InitHues] :
         stars = IF variant = "two"
                 THEN [ i \in 1..NumStars |-> StarParticle_init(d[i], h[i]) ]
                 ELSE [ i \in 1..NumStars |->
                          One_StarParticle_reset(d[i]) ]
    /\ Constructed
    /\ ConstructedCube
    /\ call = NoCall

Faults == {"closed", "interrupt", "error"}

\* a run handles at most MaxEvents input events and begins at most MaxTicks
\* ticks
Next ==
    \/ \E dt \in DeltaTimes, d \in [1..NumStars -> LoopDraws] :
         ticks < MaxTicks /\ BeginTick(dt, d)
    \/ Render
    \/ \E f \in Faults : RenderFault(f)
    \/ \E f \in {"closed", "error"} : RenderDestroyed(f)
    \/ EndTick
    \/ \E f \in {"closed", "error"} : EndTickFault(f)
    \/ (events < MaxEvents /\ toggle_pause)
    \/ (events < MaxEvents /\ increase_speed)
    \/ (events < MaxEvents /\ decrease_speed)
    \/ (events < MaxEvents /\ toggle_wireframe)
    \/ (events < MaxEvents /\ move_camera(Vector3D(0, 0, 10)))
    \/ (events < MaxEvents /\ move_camera(Vector3D(0, 0, -10)))
    \/ (events < MaxEvents /\ exit_animation)
    \/ \E d \in [1..NumStars -> One_LoopDraws] :
         ticks < MaxTicks /\ One_begin_tick(d)
    \/ One_sleep
    \/ One_Render
    \/ \E f \in Faults : One_RenderFault(f)
    \/ One_end_tick
    \/ (events < MaxEvents /\ One_close)
    \/ One_exit_loop

Spec == Init /\ [][Next]_vars

\* ------------------------------------------------------------------------
\* Claims checked under Spec
\* ------------------------------------------------------------------------
\* C3: once an exit event (Escape, window close) has been handled, no
\* further tick is begun.
C3_NoTickAfterExit == ticks_after_exit = 0

\* C4: on every path out of the loop the drawing surface has been released
\* exactly once.
C4_ReleasedExactlyOnce ==
    pc \in {"done", "crashed"} => surface = "destroyed" /\ releases = 1

\* C5: an unanticipated failure in a tick is caught at the loop boundary of
\* run(), reported, and the surface is released: it never leaves run().
C5_FailureCaughtAndReleased ==
    failure = "error" => pc = "done" /\ printed # "" /\ surface = "destroyed"

\* C6: while the loop is paused (running false, no exit), every part of a
\* tick leaves the stars (position, hue, flicker phase) and the cube
\* (rotation angles, hue_shift) as they were, and the tick still renders
\* the frozen frame.
C6_PausedTickFreezesScene ==
    [][ (variant = "two" /\ ~running /\ ~exit_handled
           /\ last' \in {"tick", "render", "end_tick"})
        => /\ stars' = stars
           /\ cube' = cube
           /\ (last' = "tick" => pc' = "render")
           /\ (last' = "render" /\ pc' = "events"
                 => canvas' = render(stars, cube, camera, wireframe_mode)) ]_vars

\* a paused tick has run and rendered, with time elapsed
C6_Witness ==
    /\ variant = "two" /\ ~running /\ ~exit_handled
    /\ last = "render" /\ pc = "events" /\ fps_elapsed > 0
    /\ canvas.lines # <<>>

\* C7: the loop starts Running; a pause event flips Running and Paused; no
\* tick and no other input event but exit changes the state; the loop ends
\* only through an exit event or a failure.
C7_RunningPausedMachine ==
    /\ running = TRUE
    /\ [][ /\ (last' = "toggle_pause" => running' = ~running)
           /\ (last' \notin {"toggle_pause", "exit_animation", "close"}
                 => running' = running)
           /\ (pc' \in {"done", "crashed"}
                 => exit_handled' \/ failure' # "none") ]_vars

\* two pause events in a row have restored Running
C7_Witness ==
    /\ variant = "two" /\ last = "toggle_pause" /\ running /\ events = 2

\* C12: the star pool keeps its configured size through every tick, respawn
\* and input event of a run.
C12_PoolSizeConstant == Len(stars) = NumStars

\* after an input event, a flickering star that had been updated was
\* re-randomized by update(): its hue has advanced and its flicker phase is
\* back at 0
C12_Witness ==
    /\ variant = "two" /\ events > 0 /\ ticks > 1
    /\ \E i \in 1..Len(stars) :
         /\ stars[i].flicker
         /\ stars[i].flicker_state = 0
         /\ stars[i].hue \notin InitHues

\* the three rotation angles of the cube of either program
Angles(c) == IF variant = "two" THEN c.rotation ELSE c.angle

\* C15: the angles start at zero; a tick of the running delta-time program
\* adds ROTATION_SPEED * rotation_speed * delta_time * 60 to X, 0.7 of it to
\* Y and 0.3 of it to Z, with no wrapping (a tick of the fixed-step program
\* adds ROTATION_SPEED, 0.7 and 0.3 of it); so Y = 0.7 * X and Z = 0.3 * X
\* always, and no step that is not a tick changes the angles.
C15_RotationRatios ==
    /\ Angles(cube) = <<0, 0, 0>>
    /\ [][ LET a == Angles(cube)
               b == Angles(cube')
           IN /\ 10 * b[2] = 7 * b[1]
              /\ 10 * b[3] = 3 * b[1]
              /\ last' # "tick" => b = a
              /\ (last' = "tick" /\ variant = "two" /\ ~running) => b = a
              /\ (last' = "tick" /\ variant = "two" /\ running) =>
                   \E dt \in DeltaTimes :
                      /\ 10 * (b[1] - a[1]) =
                           ROTATION_SPEED * rotation_speed * dt
                      /\ 100 * (b[2] - a[2]) =
                           7 * ROTATION_SPEED * rotation_speed * dt
                      /\ 100 * (b[3] - a[3]) =
                           3 * ROTATION_SPEED * rotation_speed * dt
              /\ (last' = "tick" /\ variant = "one") =>
                   /\ b[1] = a[1] + ROTATION_SPEED
                   /\ 10 * (b[2] - a[2]) = 7 * ROTATION_SPEED
                   /\ 10 * (b[3] - a[3]) = 3 * ROTATION_SPEED ]_vars

\* one frame at multiplier 1.0, the speed raised, a stall of one second at
\* 1.1, and then a camera key: the angles are those of the two ticks
C15_Witness ==
    /\ variant = "two"
    /\ last = "move_camera"
    /\ cube.rotation = <<13400, 9380, 4020>>

\* ------------------------------------------------------------------------
\* SpecZoom: ticks and zoom keys alone
\* ------------------------------------------------------------------------
\* presses of the zoom-in key the model follows
MaxZoom == 51

\* one frame time and one reset draw are enough here
NextZoom ==
    \/ \E d \in [1..NumStars -> {DrawNear}] :
         ticks < MaxTicks /\ BeginTick(1, d)
    \/ Render
    \/ EndTick
    \/ (events < MaxZoom /\ move_camera(Vector3D(0, 0, 10)))
    \/ (events < MaxZoom /\ camera[3] > CameraInit[3]
          /\ move_camera(Vector3D(0, 0, -10)))
    \/ \E d \in [1..NumStars -> One_LoopDraws] :
         ticks < MaxTicks /\ One_begin_tick(d)
    \/ One_sleep
    \/ One_Render
    \/ One_end_tick

SpecZoom == Init /\ [][NextZoom]_vars

\* C2: nothing is drawn from a point at or behind the camera: every dot,
\* every line end and every face vertex drawn by render() has a positive
\* camera-relative depth.
C2_NothingDrawnBehindCamera ==
    variant = "two" =>
        /\ \A k \in 1..Len(canvas.dots) : canvas.dots[k].depth > 0
        /\ \A k \in 1..Len(canvas.lines) :
             canvas.lines[k].depths[1] > 0 /\ canvas.lines[k].depths[2] > 0
        /\ \A k \in 1..Len(canvas.fills) :
             \A v \in 1..Len(canvas.fills[k].depths) :
                canvas.fills[k].depths[v] > 0

\* vertex v of the cube projects to a positive depth
InFront(v) ==
    project_point(camera, transform_vertex(cube, cube.vertices[v]))[3] > 0

\* C9: a wireframe draw draws each edge at most once, in list order, and
\* draws exactly the edges whose two end points both project to a depth
\* > 0; so with every vertex in front of the camera it draws every edge
\* once.  The fixed-step program, which has no camera, draws every edge once.
C9_WireframeEdges ==
    (last = "render" /\ pc = "events" /\ wireframe_mode) =>
        LET drawn == [ k \in 1..Len(canvas.lines) |-> canvas.lines[k].edge ]
            n == Len(cube.edges)
        IN /\ \A k \in 1..(Len(drawn) - 1) : drawn[k] < drawn[k + 1]
           /\ variant = "one" => { drawn[k] : k \in 1..Len(drawn) } = 1..n
           /\ variant = "two" =>
                /\ { drawn[k] : k \in 1..Len(drawn) } =
                     { i \in 1..n : InFront(cube.edges[i][1])
                                    /\ InFront(cube.edges[i][2]) }
                /\ (\A v \in 1..Len(cube.vertices) : InFront(v))
                     => Len(drawn) = n

\* a frame drawn with the camera inside the cube: some edges drawn, some not
C9_Witness ==
    /\ variant = "two" /\ last = "render" /\ pc = "events" /\ wireframe_mode
    /\ Len(canvas.lines) > 0
    /\ Len(canvas.lines) < Len(cube.edges)

\* ------------------------------------------------------------------------
\* SpecStar: reset() and update() called on the stars in any order
\* ------------------------------------------------------------------------
\* calls made on the pool
MaxCalls == 3

\* reset draws with depths next to the near threshold and at the far one
StarDraws ==
    { [DrawMid EXCEPT !.z = z, !.speed = sp] :
        z \in {10, 15, 24, SCREEN_WIDTH}, sp \in 1..2 }

One_StarDraws ==
    { [ z |-> d.z, x |-> d.x, y |-> d.y, speed |-> d.speed, size |-> d.size ] :
        d \in StarDraws }

\* elapsed times passed to update(), in 1/60 s
StarDeltaTimes == {0, 1, 2, FPS}

InitStar ==
    /\ variant \in {"one", "two"}
    /\ \E d \in [1..NumStars -> StarDraws], h \in [1..NumStars -> InitHues] :
         stars = IF variant = "two"
                 THEN [ i \in 1..NumStars |-> StarParticle_init(d[i], h[i]) ]
                 ELSE [ i \in 1..NumStars |->
                          One_StarParticle_reset([ z |-> d[i].z, x |-> d[i].x, y |-> d[i].y,
                              speed |-> d[i].speed, size |-> d[i].size ]) ]
    /\ Constructed
    /\ ConstructedCube
    /\ call = [ op |-> "none", n |-> 0, crossed |-> FALSE ]

\* star.reset()
Call_reset(i, d) ==
    /\ variant = "two"
    /\ stars' = [stars EXCEPT ![i] = StarParticle_reset(@, d)]
    /\ call' = [ op |-> "reset", n |-> call.n + 1, crossed |-> FALSE ]
    /\ last' = "reset"
    /\ UNCHANGED << variant, pc, control, cube, clock, window, canvas, history,
                    events >>

\* star.update(delta_time); crossed: the move took the star below depth 1
Call_update(i, delta_time, d) ==
    /\ variant = "two"
    /\ stars' = [stars EXCEPT ![i] = StarParticle_update(@, delta_time, d)]
    /\ call' = [ op |-> "update", n |-> call.n + 1,
                 crossed |->
                   stars[i].z - STAR_SPEED * stars[i].speed * delta_time < 1 ]
    /\ last' = "update"
    /\ UNCHANGED << variant, pc, control, cube, clock, window, canvas, history,
                    events >>

One_Call_reset(i, d) ==
    /\ variant = "one"
    /\ stars' = [stars EXCEPT ![i] = One_StarParticle_reset(d)]
    /\ call' = [ op |-> "reset", n |-> call.n + 1, crossed |-> FALSE ]
    /\ last' = "reset"
    /\ UNCHANGED << variant, pc, control, cube, clock, window, canvas, history,
                    events >>

One_Call_update(i, d) ==
    /\ variant = "one"
    /\ stars' = [stars EXCEPT ![i] = One_StarParticle_update(@, d)]
    /\ call' = [ op |-> "update", n |-> call.n + 1,
                 crossed |-> stars[i].z - STAR_SPEED * stars[i].speed < MIN_Z ]
    /\ last' = "update"
    /\ UNCHANGED << variant, pc, control, cube, clock, window, canvas, history,
                    events >>

NextStar ==
    \/ \E i \in 1..NumStars, d \in StarDraws :
         call.n < MaxCalls /\ Call_reset(i, d)
    \/ \E i \in 1..NumStars, dt \in StarDeltaTimes, d \in StarDraws :
         call.n < MaxCalls /\ Call_update(i, dt, d)
    \/ \E i \in 1..NumStars, d \in One_StarDraws :
         call.n < MaxCalls /\ One_Call_reset(i, d)
    \/ \E i \in 1..NumStars, d \in One_StarDraws :
         call.n < MaxCalls /\ One_Call_update(i, d)

SpecStar == InitStar /\ [][NextStar]_vars

\* C1: in both programs every star's depth lies in [1, SCREEN_WIDTH] after
\* construction and after every reset() and update() call.
C1_DepthInBand ==
    \A i \in 1..Len(stars) : 1 <= stars[i].z /\ stars[i].z <= SCREEN_WIDTH

\* an update() moved a star of the delta-time program below the near
\* threshold
C1_Witness ==
    /\ variant = "two"
    /\ call.op = "update"
    /\ call.crossed

\* C14: update(delta_time) advances the hue of the star it is called on by
\* hue_speed * delta_time * 60 modulo 1.0, the elapsed time being the one
\* its movement is scaled by; update(0) leaves the hue unchanged.
C14_HueAdvanceScaled ==
    [][ (variant = "two" /\ call'.op = "update" /\ call'.n = call.n + 1) =>
          \E dt \in StarDeltaTimes, i \in 1..Len(stars) :
             LET movement == STAR_SPEED * stars[i].speed * dt
             IN /\ \A j \in 1..Len(stars) : j # i => stars'[j] = stars[j]
                /\ IF stars[i].z - movement < 1
                   THEN call'.crossed
                   ELSE ~call'.crossed /\ stars'[i].z = stars[i].z - movement
                /\ stars'[i].hue =
                     (stars[i].hue + stars[i].hue_speed * dt) % HueScale ]_vars

\* ------------------------------------------------------------------------
\* SpecProject: Camera.move and Camera.project_point called directly
\* ------------------------------------------------------------------------
\* world points handed to project_point
ProjectPoints ==
    { <<x, y, z>> : x \in {-640, -1, 0, 150, 640},
                    y \in {-360, 0, 7},
                    z \in {-510, -500, -490, -150, 0, SCREEN_WIDTH} }

InitProject ==
    /\ variant = "two"
    /\ stars = <<>>
    /\ Constructed
    /\ ConstructedCube
    /\ call = NoCall

\* camera.move(delta)
Call_move(delta) ==
    /\ camera' = Camera_move(camera, delta)
    /\ events' = events + 1
    /\ last' = "move"
    /\ UNCHANGED << variant, pc, running, wireframe_mode, rotation_speed,
                    scene, clock, window, canvas, history, call >>

\* camera.project_point(point)
Call_project_point(point) ==
    /\ call' = [ op |-> "project_point", position |-> camera, point |-> point,
                 result |-> project_point(camera, point) ]
    /\ last' = "project_point"
    /\ UNCHANGED << variant, pc, control, scene, clock, window, canvas,
                    history, events >>

NextProject ==
    \/ (events < MaxEvents /\ Call_move(Vector3D(0, 0, 10)))
    \/ (events < MaxEvents /\ Call_move(Vector3D(0, 0, -10)))
    \/ \E point \in ProjectPoints : Call_project_point(point)

SpecProject == InitProject /\ [][NextProject]_vars

\* C8: project_point returns exactly (0, 0, 0) when depth = point.z -
\* camera.z is <= 0, and otherwise (x * fov / depth, y * fov / depth, depth)
\* with depth > 0; the returned depth is 0 iff the point is at or behind the
\* camera.  (The quotients are compared up to the truncation of the model's
\* integer division.)
C8_ProjectPoint ==
    call.op = "project_point" =>
        LET depth == call.point[3] - call.position[3]
            r == call.result
        IN /\ depth <= 0 => r = <<0, 0, 0>>
           /\ depth > 0 =>
                /\ r[3] = depth
                /\ r[3] > 0
                /\ Abs(r[1] * depth - call.point[1] * FOV) < depth
                /\ Abs(r[2] * depth - call.point[2] * FOV) < depth
                /\ r[1] * call.point[1] >= 0
                /\ r[2] * call.point[2] >= 0
           /\ r[3] = 0 <=> depth <= 0

\* a point in front of the moved camera was projected off the axis
C8_Witness ==
    /\ call.op = "project_point"
    /\ call.position # CameraInit
    /\ call.result[3] > 0
    /\ call.result[1] # 0

\* ------------------------------------------------------------------------
\* SpecFace: should_render_face called on the faces of rotating objects
\* ------------------------------------------------------------------------
\* a flat object: a collinear face, the same triangle wound both ways, a
\* face naming one vertex twice, and faces of fewer than three indices
FlatObject ==
    Object3D(<< <<0, 0, 0>>, <<100, 0, 0>>, <<200, 0, 0>>, <<0, 100, 0>> >>,
             << <<1, 2>>, <<2, 4>>, <<4, 1>> >>,
             << <<1, 2, 3>>, <<1, 2, 4>>, <<1, 4, 2>>, <<1, 1, 2>>, <<2, 4>>,
                <<3>> >>)

\* the faces of an object and their prefixes, the empty face included
FacesOf(obj) ==
    UNION { { SubSeq(obj.faces[i], 1, k) : k \in 0..Len(obj.faces[i]) } :
              i \in 1..Len(obj.faces) }

InitFace ==
    /\ variant = "two"
    /\ stars = <<>>
    /\ cube \in {ChromaticCube(CUBE_SIZE), FlatObject}
    /\ Constructed
    /\ call = NoCall

\* obj.rotate(delta_time, speed_multiplier)
Call_rotate(delta_time) ==
    /\ cube' = Object3D_rotate(cube, delta_time, rotation_speed)
    /\ ticks' = ticks + 1
    /\ last' = "rotate"
    /\ UNCHANGED << variant, pc, control, stars, clock, window, canvas,
                    failure, exit_handled, ticks_after_exit, events, call >>

\* obj.should_render_face(face, projected_vertices), on the vertices as
\* Object3D.draw projects them
Call_should_render_face(face) ==
    /\ LET projected_vertices == ProjectVertices(cube, camera, 1, <<>>)
       IN call' = [ op |-> "should_render_face",
                    face |-> face,
                    projected_vertices |-> projected_vertices,
                    result |-> should_render_face(face, projected_vertices) ]
    /\ last' = "should_render_face"
    /\ UNCHANGED << variant, pc, control, scene, clock, window, canvas,
                    history, events >>

NextFace ==
    \/ \E dt \in DeltaTimes : ticks < MaxTicks /\ Call_rotate(dt)
    \/ \E face \in FacesOf(cube) : Call_should_render_face(face)

SpecFace == InitFace /\ [][NextFace]_vars

\* C10: should_render_face is true iff the face has at least 3 indices and
\* the normalized cross product of v1 - v0 and v2 - v0 of its first three
\* projected vertices has a negative dot product with (0, 0, 1); it is
\* false for a face of fewer than 3 indices, for a zero-area face and for a
\* non-negative dot product.
C10_ShouldRenderFace ==
    call.op = "should_render_face" =>
        LET face == call.face
            pv == call.projected_vertices
            raw == cross(Vec_sub(pv[face[2]], pv[face[1]]),
                         Vec_sub(pv[face[3]], pv[face[1]]))
            facing == dot(normalize(raw), Vector3D(0, 0, 1))
        IN /\ call.result <=> (Len(face) >= 3 /\ facing < 0)
           /\ Len(face) < 3 => ~call.result
           /\ (Len(face) >= 3 /\ raw = Vector3D(0, 0, 0)) => ~call.result
           /\ (Len(face) >= 3 /\ facing >= 0) => ~call.result

\* a face of the rotated cube was reported as facing the camera
C10_Witness ==
    /\ call.op = "should_render_face"
    /\ call.result
    /\ Len(call.face) >= 3
    /\ cube.rotation # Vector3D(0, 0, 0)

\* ------------------------------------------------------------------------
\* SpecRotate: rotate() called directly with any elapsed time and multiplier
\* ------------------------------------------------------------------------
\* speed multipliers handed to rotate(), in 1/10: the two ends of the range
\* the keys allow, the default and two values between
SpeedMultipliers == {1, 7, 10, 13, 30}

InitRotate ==
    /\ variant \in {"one", "two"}
    /\ stars = <<>>
    /\ Constructed
    /\ ConstructedCube
    /\ call = [ op |-> "none", n |-> 0 ]

\* obj.rotate(delta_time, speed_multiplier); before: the object as it was
Call_rotate_by(delta_time, speed_multiplier) ==
    /\ variant = "two"
    /\ cube' = Object3D_rotate(cube, delta_time, speed_multiplier)
    /\ call' = [ op |-> "rotate", n |-> call.n + 1,
                 delta_time |-> delta_time,
                 speed_multiplier |-> speed_multiplier,
                 before |-> cube ]
    /\ last' = "rotate"
    /\ UNCHANGED << variant, pc, control, stars, clock, window, canvas,
                    history, events >>

\* cube.rotate() of the fixed-step program
One_Call_rotate ==
    /\ variant = "one"
    /\ cube' = One_rotate(cube)
    /\ call' = [ op |-> "rotate", n |-> call.n + 1, before |-> cube ]
    /\ last' = "rotate"
    /\ UNCHANGED << variant, pc, control, stars, clock, window, canvas,
                    history, events >>

NextRotate ==
    \/ \E dt \in StarDeltaTimes, m \in SpeedMultipliers :
         call.n < MaxCalls /\ Call_rotate_by(dt, m)
    \/ (call.n < MaxCalls /\ One_Call_rotate)

SpecRotate == InitRotate /\ [][NextRotate]_vars

\* C11: Object3D.rotate with zero elapsed time leaves rotation.x, rotation.y,
\* rotation.z and hue_shift as they were, whatever the speed multiplier and
\* the state before the call.
C11_RotateZeroIsNoOp ==
    (variant = "two" /\ call.op = "rotate" /\ call.delta_time = 0) =>
        /\ cube.rotation = call.before.rotation
        /\ cube.hue_shift = call.before.hue_shift

\* rotate(0, 3.0) was called on a cube already turned, its hue already
\* shifted
C11_Witness ==
    /\ variant = "two" /\ call.op = "rotate"
    /\ call.delta_time = 0 /\ call.speed_multiplier = 30
    /\ call.before.rotation[1] > 0
    /\ call.before.hue_shift > 0

\* ------------------------------------------------------------------------
\* SpecSolid: Object3D.draw called on rotating objects, in both modes
\* ------------------------------------------------------------------------
\* triangles in three planes: a near one, two at the same depth (listed
\* around a far one), and one wound the other way
TwinObject ==
    Object3D(<< <<0, 0, 0>>, <<100, 0, 0>>, <<0, 100, 0>>, <<-100, 0, 0>>,
                <<0, -100, 0>>,
                <<0, 0, -100>>, <<100, 0, -100>>, <<0, 100, -100>>,
                <<0, 0, 100>>, <<100, 0, 100>>, <<0, 100, 100>> >>,
             << <<1, 2>>, <<6, 7>>, <<9, 10>> >>,
             << <<6, 8, 7>>, <<1, 3, 2>>, <<9, 11, 10>>, <<1, 5, 4>>,
                <<1, 2, 3>> >>)

InitSolid ==
    /\ variant = "two"
    /\ stars = <<>>
    /\ cube \in {ChromaticCube(CUBE_SIZE), FlatObject, TwinObject}
    /\ Constructed
    /\ call = NoCall

\* obj.draw(turtle_obj, camera, wireframe)
Call_draw(wireframe) ==
    /\ LET drawn == Object3D_draw(cube, camera, wireframe)
       IN canvas' = [ dots |-> <<>>, lines |-> drawn.lines,
                      fills |-> drawn.fills ]
    /\ call' = [ op |-> "draw", wireframe |-> wireframe ]
    /\ last' = "draw"
    /\ UNCHANGED << variant, pc, control, scene, clock, window, history,
                    events >>

NextSolid ==
    \/ \E dt \in DeltaTimes : ticks < MaxTicks /\ Call_rotate(dt)
    \/ \E wireframe \in BOOLEAN : Call_draw(wireframe)

SpecSolid == InitSolid /\ [][NextSolid]_vars

\* the average projected depth of face i, as <<sum, count>>
AvgDepthOf(i) ==
    LET pv == ProjectVertices(cube, camera, 1, <<>>)
    IN << SumDepth(cube.faces[i], pv, 1), Len(cube.faces[i]) >>

\* C13: a solid draw fills exactly the faces should_render_face accepts,
\* each once, farthest average depth first; faces of equal average depth
\* keep their face-list order; each fill has the colour of its face index.
C13_SolidFillOrder ==
    (last = "draw" /\ ~call.wireframe) =>
        LET fills == canvas.fills
            pv == ProjectVertices(cube, camera, 1, <<>>)
        IN /\ { fills[k].face : k \in 1..Len(fills) } =
                { i \in 1..Len(cube.faces) :
                    should_render_face(cube.faces[i], pv) }
           /\ \A j, k \in 1..Len(fills) :
                j # k => fills[j].face # fills[k].face
           /\ \A k \in 1..(Len(fills) - 1) :
                LET a == AvgDepthOf(fills[k].face)
                    b == AvgDepthOf(fills[k + 1].face)
                IN /\ a[1] * b[2] >= b[1] * a[2]
                   /\ a[1] * b[2] = b[1] * a[2]
                        => fills[k].face < fills[k + 1].face
           /\ \A k \in 1..Len(fills) :
                fills[k].hue =
                    (cube.hue_shift + (fills[k].face - 1) * 50) % HueScale
           /\ canvas.lines = <<>>

\* a solid draw that culled a face, moved a later face in front of an
\* earlier one and kept two faces of equal average depth in list order
C13_Witness ==
    /\ last = "draw" /\ ~call.wireframe
    /\ Len(canvas.fills) > 1
    /\ Len(canvas.fills) < Len(cube.faces)
    /\ \E k \in 1..(Len(canvas.fills) - 1) :
         canvas.fills[k].face > canvas.fills[k + 1].face
    /\ \E k \in 1..(Len(canvas.fills) - 1) :
         LET a == AvgDepthOf(canvas.fills[k].face)
             b == AvgDepthOf(canvas.fills[k + 1].face)
         IN a[1] * b[2] = b[1] * a[2]

\* ------------------------------------------------------------------------
\* SpecSpeed: the delta-time program under ticks and the speed keys, with a
\* few presses of the pause and mode keys at the start
\* ------------------------------------------------------------------------
\* key presses in one run: enough to take the multiplier from 1.0 to 3.0
\* and press once more
MaxPresses == 21

InitSpeed == Init /\ variant = "two"

NextSpeed ==
    \/ \E d \in [1..NumStars -> {DrawNear}] :
         ticks < MaxTicks /\ BeginTick(1, d)
    \/ Render
    \/ EndTick
    \/ (events < MaxPresses /\ increase_speed)
    \/ (events < MaxPresses /\ decrease_speed)
    \/ (events < MaxEvents /\ toggle_pause)
    \/ (events < MaxEvents /\ toggle_wireframe)

SpecSpeed == InitSpeed /\ [][NextSpeed]_vars

\* C16: the speed multiplier starts at 1.0 and stays within [0.1, 3.0];
\* an increase adds 0.1 but leaves 3.0 unchanged, a decrease subtracts 0.1
\* but leaves 0.1 unchanged, and no tick or other event changes it.
C16_SpeedMultiplierRange ==
    /\ rotation_speed = 10
    /\ [][ /\ 1 <= rotation_speed' /\ rotation_speed' <= 30
           /\ last' = "increase_speed" =>
                rotation_speed' = IF rotation_speed = 30 THEN 30
                                  ELSE rotation_speed + 1
           /\ last' = "decrease_speed" =>
                rotation_speed' = IF rotation_speed = 1 THEN 1
                                  ELSE rotation_speed - 1
           /\ last' \notin {"increase_speed", "decrease_speed"} =>
                rotation_speed' = rotation_speed ]_vars

\* the increase key pressed once more with the multiplier already at 3.0
C16_Witness ==
    /\ last = "increase_speed"
    /\ rotation_speed = 30
    /\ events = MaxPresses

====
